---------------------------- MODULE Spec2Model ----------------------------
(***************************************************************************)
(* Model of md_table_to_csv.py: the line classifier and block segmenter    *)
(* (find_tables), the row parser (parse_table, _split_row) and the numbered *)
(* output of convert_file.                                                  *)
(*                                                                          *)
(* A Python str is a sequence of characters; a character is a one-element   *)
(* TLA+ string, except the characters that are not ASCII, which carry a     *)
(* name (BoxV is U+2502, NUL is U+0000, ...).                               *)
(***************************************************************************)
EXTENDS Integers, Sequences, FiniteSets, TLC

VARIABLES text, pc, lines, i, current_block, tables, raw_tables, t, rows,
          tables_written, files, result, phase, base_tables, base_files

vars == <<text, pc, lines, i, current_block, tables, raw_tables, t, rows,
          tables_written, files, result, phase, base_tables, base_files>>

-----------------------------------------------------------------------------
(* Characters *)

PIPE == "|"
BACKSLASH == "\\"
SPACE == " "
DASH == "-"
COLON == ":"
GT == ">"
NEWLINE == "\n"
NUL == "NUL"          \* U+0000
BoxV == "BoxV"        \* U+2502  box drawings light vertical
BoxH == "BoxH"        \* U+2500  box drawings light horizontal
BoxDR == "BoxDR"      \* U+250C  top-left corner
BoxDL == "BoxDL"      \* U+2510  top-right corner
BoxUR == "BoxUR"      \* U+2514  bottom-left corner
BoxUL == "BoxUL"      \* U+2518  bottom-right corner
BoxVR == "BoxVR"      \* U+251C  left junction
BoxVL == "BoxVL"      \* U+2524  right junction
BoxDH == "BoxDH"      \* U+252C  top junction
BoxUH == "BoxUH"      \* U+2534  bottom junction
BoxVH == "BoxVH"      \* U+253C  cross

\* the characters str.strip() and the regex class \s remove, among those a
\* line can hold (a line holds no line break after splitlines)
Whitespace == {SPACE, "\t"}

TABLE_LINE_STARTS == {PIPE, BoxV, BoxDR, BoxVR, BoxUR}

BOX_BORDER_CHARS ==
    {BoxDR, BoxDL, BoxUR, BoxUL, BoxVR, BoxVL, BoxDH, BoxUH, BoxVH, BoxH, BoxV}

\* placeholder = "\x00PIPE\x00"
placeholder == <<NUL, "P", "I", "P", "E", NUL>>

-----------------------------------------------------------------------------
(* str methods *)

\* s[a..b] of a Python str, 1-based and inclusive, empty when a > b
Slice(s, a, b) == IF a > b THEN <<>> ELSE SubSeq(s, a, b)

\* s.startswith(p) at offset k (1-based)
StartsWithAt(s, p, k) ==
    /\ k + Len(p) - 1 <= Len(s)
    /\ \A j \in 1..Len(p) : s[k + j - 1] = p[j]

\* s.lstrip()
RECURSIVE lstrip(_)
lstrip(s) ==
    IF s # <<>> /\ Head(s) \in Whitespace THEN lstrip(Tail(s)) ELSE s

\* s.rstrip()
RECURSIVE rstrip(_)
rstrip(s) ==
    IF s # <<>> /\ s[Len(s)] \in Whitespace
      THEN rstrip(Slice(s, 1, Len(s) - 1))
      ELSE s

\* s.strip()
strip(s) == rstrip(lstrip(s))

\* s.replace(old, new): leftmost occurrences of old, not overlapping
RECURSIVE replace(_, _, _)
replace(s, old, new) ==
    IF s = <<>> THEN <<>>
    ELSE IF StartsWithAt(s, old, 1)
      THEN new \o replace(Slice(s, Len(old) + 1, Len(s)), old, new)
      ELSE <<Head(s)>> \o replace(Tail(s), old, new)

\* s.split(sep) for a one-character sep: always at least one piece
RECURSIVE SplitFrom(_, _, _)
SplitFrom(s, sep, cur) ==
    IF s = <<>> THEN <<cur>>
    ELSE IF Head(s) = sep
      THEN <<cur>> \o SplitFrom(Tail(s), sep, <<>>)
      ELSE SplitFrom(Tail(s), sep, Append(cur, Head(s)))

split(s, sep) == SplitFrom(s, sep, <<>>)

\* text.splitlines(): a line break ends a line, and a text that ends with
\* one has no empty last line.  Of the line breaks str.splitlines() knows,
\* the texts of the model hold "\n" only.
RECURSIVE SplitLinesFrom(_, _)
SplitLinesFrom(s, cur) ==
    IF s = <<>> THEN (IF cur = <<>> THEN <<>> ELSE <<cur>>)
    ELSE IF Head(s) = NEWLINE
      THEN <<cur>> \o SplitLinesFrom(Tail(s), <<>>)
      ELSE SplitLinesFrom(Tail(s), Append(cur, Head(s)))

splitlines(s) == SplitLinesFrom(s, <<>>)

-----------------------------------------------------------------------------
(* Line classification *)

\* the pattern ^[\s:\-]+(?:\|[\s:BoxH\-]+)+$
\* The classes hold no pipe, so the pieces between the pipes are the match:
\* at least two pieces, none empty, the first of [\s:\-], the others of
\* [\s:BoxH\-].
_BARE_SEPARATOR_RE(line) ==
    LET parts == split(line, PIPE)
    IN /\ Len(parts) >= 2
       /\ \A p \in 1..Len(parts) : parts[p] # <<>>
       /\ \A j \in 1..Len(parts[1]) :
             parts[1][j] \in Whitespace \cup {COLON, DASH}
       /\ \A p \in 2..Len(parts) : \A j \in 1..Len(parts[p]) :
             parts[p][j] \in Whitespace \cup {COLON, BoxH, DASH}

\* the pattern ^[^|]+(?<!\\)\|.+$
\* [^|]+ is a non-empty prefix without pipe, the next character is a pipe
\* that no backslash precedes, and at least one character follows it.
_BARE_TABLE_ROW_RE(line) ==
    \E p \in 2..Len(line) :
        /\ \A q \in 1..(p - 1) : line[q] # PIPE
        /\ line[p] = PIPE
        /\ line[p - 1] # BACKSLASH
        /\ p + 1 <= Len(line)

\* strip_markers leaving the whitespace after a marker
RECURSIVE strip_markers_no_lstrip(_)
strip_markers_no_lstrip(stripped) ==
    IF stripped # <<>> /\ Head(stripped) = GT
      THEN strip_markers_no_lstrip(Tail(stripped))
      ELSE stripped

RECURSIVE strip_markers(_)
strip_markers(stripped) ==
    IF stripped # <<>> /\ Head(stripped) = GT
      THEN strip_markers(lstrip(Tail(stripped)))
      ELSE stripped

_strip_blockquote(line) == strip_markers(strip(line))

_is_table_line(line) ==
    IF line = <<>> THEN FALSE
    ELSE IF line[1] \in TABLE_LINE_STARTS THEN TRUE
    ELSE IF _BARE_SEPARATOR_RE(line) THEN TRUE
    ELSE IF _BARE_TABLE_ROW_RE(line) THEN TRUE
    ELSE FALSE

-----------------------------------------------------------------------------
(* Row parsing *)

\* _is_separator_row without the box-drawing characters in its class
is_separator_row_ascii_only(line) ==
    LET removed == {PIPE, DASH, COLON} \cup Whitespace
        keep(c) == c \notin removed
    IN Len(SelectSeq(line, keep)) = 0

\* _is_separator_row without \s in its class
is_separator_row_no_whitespace(line) ==
    LET removed == {PIPE, DASH, COLON} \cup BOX_BORDER_CHARS
        keep(c) == c \notin removed
    IN Len(SelectSeq(line, keep)) = 0

\* re.sub(r"[|\-:\s<box border characters>]", "", line) leaves nothing
_is_separator_row(line) ==
    LET removed == {PIPE, DASH, COLON} \cup Whitespace \cup BOX_BORDER_CHARS
        keep(c) == c \notin removed
        cleaned == SelectSeq(line, keep)
    IN Len(cleaned) = 0

\* split_cells splitting on every pipe, escaped or not
split_cells_no_escape(line) ==
    IF \E j \in 1..Len(line) : line[j] = BoxV
      THEN split(line, BoxV)
      ELSE split(line, PIPE)

\* _split_row, lines 192-201: the cells before the outer ones are dropped
split_cells(line) ==
    IF \E j \in 1..Len(line) : line[j] = BoxV
      THEN split(line, BoxV)
      ELSE LET protected == replace(line, <<BACKSLASH, PIPE>>, placeholder)
               cells == split(protected, PIPE)
           IN [c \in 1..Len(cells) |-> replace(cells[c], placeholder, <<PIPE>>)]

\* drop_outer dropping every blank cell, not the outer ones only
drop_outer_every_blank(cells) ==
    LET full(c) == strip(c) # <<>>
        kept == SelectSeq(cells, full)
    IN [c \in 1..Len(kept) |-> strip(kept[c])]

\* drop_outer without the strip of the cells it returns
drop_outer_no_strip(cells) ==
    LET c1 == IF cells # <<>> /\ strip(cells[1]) = <<>>
                THEN Tail(cells) ELSE cells
    IN IF c1 # <<>> /\ strip(c1[Len(c1)]) = <<>>
         THEN Slice(c1, 1, Len(c1) - 1) ELSE c1

\* _split_row, lines 203-210
drop_outer(cells) ==
    LET c1 == IF cells # <<>> /\ strip(cells[1]) = <<>>
                THEN Tail(cells) ELSE cells
        c2 == IF c1 # <<>> /\ strip(c1[Len(c1)]) = <<>>
                THEN Slice(c1, 1, Len(c1) - 1) ELSE c1
    IN [c \in 1..Len(c2) |-> strip(c2[c])]

_split_row(line) == drop_outer(split_cells(line))

RECURSIVE parse_table(_)
parse_table(block) ==
    IF block = <<>> THEN <<>>
    ELSE IF _is_separator_row(Head(block))
      THEN parse_table(Tail(block))
      ELSE <<_split_row(Head(block))>> \o parse_table(Tail(block))

-----------------------------------------------------------------------------
(* Inputs *)

\* the most lines a document built from DocLines holds
MaxDocLines == 5
\* the most pieces of LineTokens a free line is built from
MaxTokens == 4
\* the most lines a document that gets quote markers holds
MaxQuoteLines == 3

RECURSIVE Concat(_)
Concat(seqs) == IF seqs = <<>> THEN <<>> ELSE Head(seqs) \o Concat(Tail(seqs))

\* "\n".join(ls)
RECURSIVE JoinLines(_)
JoinLines(ls) ==
    IF ls = <<>> THEN <<>>
    ELSE IF Len(ls) = 1 THEN ls[1]
    ELSE ls[1] \o <<NEWLINE>> \o JoinLines(Tail(ls))

SeqsUpTo(S, n) == UNION {[1..m -> S] : m \in 0..n}

RowLine == <<PIPE, SPACE, "a", SPACE, PIPE>>              \* | a |
RowLineB == <<PIPE, SPACE, "b", SPACE, PIPE>>             \* | b |
SepLine == <<PIPE, DASH, PIPE>>                           \* |-|
BareLine == <<GT, SPACE, "a", SPACE, PIPE, SPACE, "b">>   \* > a | b
ProseLine == <<"x">>                                      \* x
BlankLine == <<>>

DocLines == {RowLine, SepLine, BareLine, ProseLine, BlankLine}

\* | a | / blank / | b |
TwoSingleLines == JoinLines(<<RowLine, BlankLine, RowLineB>>)

\* the box-drawing table of five lines: top border, X Y, middle border,
\* 1 2, bottom border
BoxTable ==
    JoinLines(<< <<BoxDR, BoxH, BoxDH, BoxH, BoxDL>>,
                 <<BoxV, SPACE, "X", SPACE, BoxV, SPACE, "Y", SPACE, BoxV>>,
                 <<BoxVR, BoxH, BoxVH, BoxH, BoxVL>>,
                 <<BoxV, SPACE, "1", SPACE, BoxV, SPACE, "2", SPACE, BoxV>>,
                 <<BoxUR, BoxH, BoxUH, BoxH, BoxUL>> >>)

ExampleDocs == {TwoSingleLines, BoxTable}

Docs == {JoinLines(ls) : ls \in SeqsUpTo(DocLines, MaxDocLines)}

EscapedPipe == <<BACKSLASH, PIPE>>
HalfPlaceholder == <<NUL, "P", "I", "P", "E">>

LineTokens ==
    {<<PIPE>>, <<BACKSLASH>>, <<BoxV>>, <<"a">>, <<SPACE>>, <<DASH>>,
     placeholder, HalfPlaceholder}

\* | A \| B | 30 |
EscapeExample ==
    <<PIPE, SPACE, "A", SPACE, BACKSLASH, PIPE, SPACE, "B", SPACE, PIPE,
      SPACE, "3", "0", SPACE, PIPE>>
\* | Alice | | NYC |
InteriorExample ==
    <<PIPE, SPACE, "A", "l", "i", "c", "e", SPACE, PIPE, SPACE, PIPE,
      SPACE, "N", "Y", "C", SPACE, PIPE>>
\* | Bob   | 25  |          |
TrailingExample ==
    <<PIPE, SPACE, "B", "o", "b", SPACE, SPACE, SPACE, PIPE, SPACE, "2", "5",
      SPACE, SPACE, PIPE, SPACE, SPACE, SPACE, SPACE, PIPE>>

\* a\|b|c
BareEscapedExample == <<"a", BACKSLASH, PIPE, "b", PIPE, "c">>

ExampleLines ==
    {EscapeExample, InteriorExample, TrailingExample, BareEscapedExample}

FreeLines == {Concat(ts) : ts \in SeqsUpTo(LineTokens, MaxTokens)}

\* a free line and, after it, a separator line: a table line is in a block
LineDocs == {JoinLines(<<l, SepLine>>) : l \in FreeLines \cup ExampleLines}

IndentedBare == <<SPACE, SPACE, "a", SPACE, PIPE, SPACE, "b">>   \*   a | b

QuoteLines == {RowLine, SepLine, ProseLine, IndentedBare}
QuoteDocs == {JoinLines(ls) : ls \in SeqsUpTo(QuoteLines, MaxQuoteLines)}

\* n >= 0 quote markers, each followed by whitespace or not
QuoteMarkers ==
    {<<>>, <<GT, SPACE>>, <<GT, SPACE, GT, SPACE>>, <<GT, SPACE, SPACE, GT>>}

-----------------------------------------------------------------------------
(* convert_file, with find_tables in it *)

Fresh(doc) ==
    /\ text = doc
    /\ pc = "start"
    /\ lines = <<>>
    /\ i = 0
    /\ current_block = <<>>
    /\ tables = <<>>
    /\ raw_tables = <<>>
    /\ t = 0
    /\ rows = <<>>
    /\ tables_written = 0
    /\ files = <<>>
    /\ result = -1
    /\ phase = "first"
    /\ base_tables = <<>>
    /\ base_files = <<>>

Init == \E doc \in Docs \cup ExampleDocs : Fresh(doc)

InitLine == \E doc \in LineDocs : Fresh(doc)

InitQuote == \E doc \in QuoteDocs : Fresh(doc)

harness == <<phase, base_tables, base_files>>

\* text = input_path.read_text(); find_tables(text) starts its scan
ReadText ==
    /\ pc = "start"
    /\ lines' = splitlines(text)
    /\ i' = 1
    /\ current_block' = <<>>
    /\ tables' = <<>>
    /\ pc' = "scan"
    /\ UNCHANGED <<text, raw_tables, t, rows, tables_written, files, result,
                   harness>>

\* a table line joins the current block
TableLine ==
    /\ pc = "scan"
    /\ i <= Len(lines)
    /\ LET cleaned == _strip_blockquote(lines[i])
       IN /\ _is_table_line(cleaned)
          /\ current_block' = Append(current_block, cleaned)
    /\ i' = i + 1
    /\ UNCHANGED <<text, pc, lines, tables, raw_tables, t, rows,
                   tables_written, files, result, harness>>

\* BoundaryLine keeping a block of one line
BoundaryLine_keeps_single ==
    /\ pc = "scan"
    /\ i <= Len(lines)
    /\ ~ _is_table_line(_strip_blockquote(lines[i]))
    /\ tables' = IF Len(current_block) >= 1
                   THEN Append(tables, current_block)
                   ELSE tables
    /\ current_block' = <<>>
    /\ i' = i + 1
    /\ UNCHANGED <<text, pc, lines, raw_tables, t, rows, tables_written,
                   files, result, harness>>

\* any other line ends the current block, kept when it has two lines
BoundaryLine ==
    /\ pc = "scan"
    /\ i <= Len(lines)
    /\ ~ _is_table_line(_strip_blockquote(lines[i]))
    /\ tables' = IF Len(current_block) >= 2
                   THEN Append(tables, current_block)
                   ELSE tables
    /\ current_block' = <<>>
    /\ i' = i + 1
    /\ UNCHANGED <<text, pc, lines, raw_tables, t, rows, tables_written,
                   files, result, harness>>

\* EndOfText forgetting the block that reaches the end of the text
EndOfText_drops_last ==
    /\ pc = "scan"
    /\ i > Len(lines)
    /\ tables' = tables
    /\ raw_tables' = tables'
    /\ pc' = "found"
    /\ UNCHANGED <<text, lines, i, current_block, t, rows, tables_written,
                   files, result, harness>>

\* the text is read: the block that reaches its end is kept likewise, and
\* find_tables returns to convert_file
EndOfText ==
    /\ pc = "scan"
    /\ i > Len(lines)
    /\ tables' = IF Len(current_block) >= 2
                   THEN Append(tables, current_block)
                   ELSE tables
    /\ raw_tables' = tables'
    /\ pc' = "found"
    /\ UNCHANGED <<text, lines, i, current_block, t, rows, tables_written,
                   files, result, harness>>

\* if not raw_tables: return 0
NoTablesFound ==
    /\ pc = "found"
    /\ raw_tables = <<>>
    /\ result' = 0
    /\ pc' = "done"
    /\ UNCHANGED <<text, lines, i, current_block, tables, raw_tables, t, rows,
                   tables_written, files, harness>>

\* tables_written = 0, and the loop over raw_tables starts
BeginTables ==
    /\ pc = "found"
    /\ raw_tables # <<>>
    /\ tables_written' = 0
    /\ t' = 1
    /\ pc' = "loop"
    /\ UNCHANGED <<text, lines, i, current_block, tables, raw_tables, rows,
                   files, result, harness>>

\* rows = parse_table(raw_table); if not rows: continue
SkipEmptyTable ==
    /\ pc = "loop"
    /\ t <= Len(raw_tables)
    /\ rows' = parse_table(raw_tables[t])
    /\ rows' = <<>>
    /\ t' = t + 1
    /\ UNCHANGED <<text, pc, lines, i, current_block, tables, raw_tables,
                   tables_written, files, result, harness>>

\* WriteTable numbering a file by the block's place among the blocks
WriteTable_numbers_by_block ==
    /\ pc = "loop"
    /\ t <= Len(raw_tables)
    /\ rows' = parse_table(raw_tables[t])
    /\ rows' # <<>>
    /\ tables_written' = tables_written + 1
    /\ files' = [n \in DOMAIN files \cup {t} |->
                    IF n = t THEN rows' ELSE files[n]]
    /\ t' = t + 1
    /\ UNCHANGED <<text, pc, lines, i, current_block, tables, raw_tables,
                   result, harness>>

\* the rows go to the file {stem}_table{tables_written}.csv: a file is
\* named by its number, and holds the rows csv.writer is given
WriteTable ==
    /\ pc = "loop"
    /\ t <= Len(raw_tables)
    /\ rows' = parse_table(raw_tables[t])
    /\ rows' # <<>>
    /\ tables_written' = tables_written + 1
    /\ files' = [n \in DOMAIN files \cup {tables_written'} |->
                    IF n = tables_written' THEN rows' ELSE files[n]]
    /\ t' = t + 1
    /\ UNCHANGED <<text, pc, lines, i, current_block, tables, raw_tables,
                   result, harness>>

\* return tables_written
Return ==
    /\ pc = "loop"
    /\ t > Len(raw_tables)
    /\ result' = tables_written
    /\ pc' = "done"
    /\ UNCHANGED <<text, lines, i, current_block, tables, raw_tables, t, rows,
                   tables_written, files, harness>>

Next ==
    \/ ReadText
    \/ TableLine
    \/ BoundaryLine
    \/ EndOfText
    \/ NoTablesFound
    \/ BeginTables
    \/ SkipEmptyTable
    \/ WriteTable
    \/ Return

Spec == Init /\ [][Next]_vars

\* convert_file is called again, on another text
Again(doc) ==
    /\ text' = doc
    /\ pc' = "start"
    /\ lines' = <<>>
    /\ i' = 0
    /\ current_block' = <<>>
    /\ tables' = <<>>
    /\ raw_tables' = <<>>
    /\ t' = 0
    /\ rows' = <<>>
    /\ tables_written' = 0
    /\ files' = <<>>
    /\ result' = -1

\* the document is converted once more with quote markers before its lines:
\* what the first conversion found is kept to compare
Requote ==
    /\ pc = "done"
    /\ phase = "first"
    /\ LET ls == split(text, NEWLINE)
       IN \E ms \in [1..Len(ls) -> QuoteMarkers] :
            Again(JoinLines([j \in 1..Len(ls) |-> ms[j] \o ls[j]]))
    /\ phase' = "requoted"
    /\ base_tables' = raw_tables
    /\ base_files' = files

NextQuote == Next \/ Requote

SpecQuote == InitQuote /\ [][NextQuote]_vars

\* the notation of a block, by its lines that are not separators
NotationOf(block) ==
    LET data == SelectSeq(block, LAMBDA l : ~ _is_separator_row(l))
    IN IF \A k \in 1..Len(data) : data[k][1] = BoxV THEN "box"
       ELSE IF \E k \in 1..Len(data) : \E j \in 1..Len(data[k]) : data[k][j] = BoxV
         THEN "mixed"
       ELSE IF \A k \in 1..Len(data) : data[k][1] = PIPE THEN "outer"
       ELSE IF \A k \in 1..Len(data) : data[k][1] \notin TABLE_LINE_STARTS
         THEN "bare"
       ELSE "mixed"

\* a literal pipe of a cell is written backslash-pipe in the ASCII notations
EscapeCell(cell) == replace(cell, <<PIPE>>, <<BACKSLASH, PIPE>>)

\* | c1 | c2 |, c1 | c2 and the box-drawing row, one space around each cell
RowText(row, notation) ==
    IF notation = "outer"
      THEN <<PIPE>> \o Concat([k \in 1..Len(row) |->
               <<SPACE>> \o EscapeCell(row[k]) \o <<SPACE, PIPE>>])
    ELSE IF notation = "box"
      THEN <<BoxV>> \o Concat([k \in 1..Len(row) |->
               <<SPACE>> \o row[k] \o <<SPACE, BoxV>>])
    ELSE Concat([k \in 1..Len(row) |->
               IF k = 1 THEN EscapeCell(row[k])
               ELSE <<SPACE, PIPE, SPACE>> \o EscapeCell(row[k])])

\* |---|---|, ---|--- and the box-drawing middle border, for n columns
SeparatorText(n, notation) ==
    IF notation = "outer"
      THEN <<PIPE>> \o Concat([k \in 1..n |-> <<DASH, DASH, DASH, PIPE>>])
    ELSE IF notation = "box"
      THEN <<BoxVR>> \o Concat([k \in 1..n |->
               <<BoxH, BoxH, BoxH, IF k = n THEN BoxVL ELSE BoxVH>>])
    ELSE Concat([k \in 1..n |->
               IF k = 1 THEN <<DASH, DASH, DASH>>
               ELSE <<PIPE, DASH, DASH, DASH>>])

Serialize(rs, notation) ==
    JoinLines(<<RowText(rs[1], notation), SeparatorText(Len(rs[1]), notation)>>
              \o [k \in 1..(Len(rs) - 1) |-> RowText(rs[k + 1], notation)])

\* the Rows just parsed are written back in the notation of their block, and
\* that text is converted: the Rows and their block are kept to compare
Reserialize ==
    /\ pc = "loop"
    /\ phase = "first"
    /\ t > 1
    /\ rows # <<>>
    /\ NotationOf(raw_tables[t - 1]) # "mixed"
    /\ Again(Serialize(rows, NotationOf(raw_tables[t - 1])))
    /\ phase' = "reserialized"
    /\ base_tables' = <<raw_tables[t - 1]>>
    /\ base_files' = <<rows>>

NextReparse == Next \/ Reserialize

SpecReparse == InitLine /\ [][NextReparse]_vars

SpecLine == InitLine /\ [][Next]_vars

-----------------------------------------------------------------------------
(* Properties *)

\* find_tables has returned
Found == pc \in {"found", "loop", "done"}

\* the lines of a text as find_tables sees them
CleanedLines(doc) ==
    LET ls == splitlines(doc)
    IN [j \in 1..Len(ls) |-> _strip_blockquote(ls[j])]

\* lines a..b are a maximal run of table lines
IsRun(cl, a, b) ==
    /\ a <= b
    /\ \A j \in a..b : _is_table_line(cl[j])
    /\ a = 1 \/ ~ _is_table_line(cl[a - 1])
    /\ b = Len(cl) \/ ~ _is_table_line(cl[b + 1])

LongRuns(cl) ==
    {r \in (1..Len(cl)) \X (1..Len(cl)) : IsRun(cl, r[1], r[2]) /\ r[2] - r[1] + 1 >= 2}

RECURSIVE InOrder(_)
InOrder(S) ==
    IF S = {} THEN <<>>
    ELSE LET m == CHOOSE r \in S : \A q \in S : r[1] <= q[1]
         IN <<m>> \o InOrder(S \ {m})

ExpectedBlocks(doc) ==
    LET cl == CleanedLines(doc)
        runs == InOrder(LongRuns(cl))
    IN [k \in 1..Len(runs) |-> SubSeq(cl, runs[k][1], runs[k][2])]

\* C1: find_tables returns exactly the maximal runs of two or more
\* consecutive table lines, in document order, each once, as its
\* blockquote-stripped lines in their order; a run that reaches the end of
\* the document is among them, and runs that a non-table line separates are
\* separate blocks.
C1_MaximalRuns == Found => raw_tables = ExpectedBlocks(text)

\* two runs, a non-table line between them, the second reaching the end of
\* the document
C1_Witness ==
    /\ pc = "done"
    /\ Len(raw_tables) = 2
    /\ Len(lines) = 5
    /\ ~ _is_table_line(_strip_blockquote(lines[3]))
    /\ _is_table_line(_strip_blockquote(lines[5]))

WellFormedBlocks(blocks) ==
    \A b \in 1..Len(blocks) :
        /\ Len(blocks[b]) >= 2
        /\ \A j \in 1..Len(blocks[b]) : _is_table_line(blocks[b][j])

\* C2: every block find_tables returns (and every block it has collected so
\* far) has at least two lines, none of them a line _is_table_line rejects;
\* the document | a | / blank line / | b | yields no block.
C2_BlocksWellFormed ==
    /\ WellFormedBlocks(tables)
    /\ WellFormedBlocks(raw_tables)
    /\ (Found /\ text = TwoSingleLines) => raw_tables = <<>>

C2_Witness ==
    /\ pc = "done"
    /\ text = TwoSingleLines
    /\ Len(lines) = 3
    /\ result = 0

\* a block of convert_file's loop has been parsed into rows
Parsed == pc \in {"loop", "done"} /\ t > 1

\* the claim's separator/border line: nothing is left of it once every pipe,
\* dash, colon, whitespace and box-drawing border glyph is removed
SeparatorGlyphs ==
    {PIPE, DASH, COLON, SPACE, "\t", BoxDR, BoxDL, BoxUR, BoxUL, BoxVR, BoxVL,
     BoxDH, BoxUH, BoxVH, BoxH, BoxV}

IsBorderLine(line) == \A j \in 1..Len(line) : line[j] \in SeparatorGlyphs

DataLines(block) == LET data(l) == ~ IsBorderLine(l) IN SelectSeq(block, data)

\* C4: parse_table returns one Row per line of the block that is not a
\* separator/border line, in the order of the lines, the i-th Row being the
\* split of the i-th such line; a block of separator/border lines only
\* yields no Row.
C4_RowPerDataLine ==
    Parsed =>
        LET data == DataLines(raw_tables[t - 1])
        IN rows = [k \in 1..Len(data) |-> _split_row(data[k])]

\* the box-drawing table: three border lines dropped, two Rows left
C4_Witness ==
    /\ pc = "done"
    /\ text = BoxTable
    /\ Len(raw_tables) = 1
    /\ Len(raw_tables[1]) = 5
    /\ rows = << << <<"X">>, <<"Y">> >>, << <<"1">>, <<"2">> >> >>

\* the blocks that parse to at least one Row, by their place among the blocks
RECURSIVE Ascending(_)
Ascending(S) ==
    IF S = {} THEN <<>>
    ELSE LET m == CHOOSE x \in S : \A y \in S : x <= y
         IN <<m>> \o Ascending(S \ {m})

NonEmptyBlocks(blocks) ==
    Ascending({b \in 1..Len(blocks) : parse_table(blocks[b]) # <<>>})

\* C8: convert_file names its files table1 .. tableK without gap or repeat,
\* K the number of blocks that parse to at least one Row; the j-th file
\* holds the Rows of the j-th such block, a block without Rows writes no
\* file and takes no number, and K is returned.
C8_NumberedFiles ==
    pc = "done" =>
        LET ne == NonEmptyBlocks(raw_tables)
        IN /\ DOMAIN files = 1..Len(ne)
           /\ \A j \in 1..Len(ne) : files[j] = parse_table(raw_tables[ne[j]])
           /\ result = Len(ne)

\* a block of separators before a block with a Row: the second block is
\* table1
C8_Witness ==
    /\ pc = "done"
    /\ Len(raw_tables) = 2
    /\ parse_table(raw_tables[1]) = <<>>
    /\ DOMAIN files = {1}
    /\ result = 1

-----------------------------------------------------------------------------
(* Properties of one line: SpecLine *)

\* the first line of the text has been classified
FirstClassified == pc = "scan" /\ i = 2

\* a pipe that is not the first character and that no backslash precedes
HasUnescapedInnerPipe(line) ==
    \E p \in 2..Len(line) : line[p] = PIPE /\ line[p - 1] # BACKSLASH

\* the claim's lines: not empty, no table line start first, no bare separator
BareCandidate(line) ==
    /\ line # <<>>
    /\ line[1] \notin TABLE_LINE_STARTS
    /\ ~ _BARE_SEPARATOR_RE(line)

\* C3: a blockquote-stripped, non-empty line that starts with none of the
\* table line starts and is no bare separator is a table line if and only if
\* it holds a pipe that is not at position 0, is not escaped and has content
\* before it, whichever pipe of the line that is and whatever follows it.
\* A line that does not end with a pipe is looked at once it is classified;
\* a line that ends with one, once find_tables has returned: it is a table
\* line exactly when it is in the block with the separator line after it.
C3_BareRowIffUnescapedPipe ==
    /\ FirstClassified =>
         LET c == _strip_blockquote(lines[1])
         IN (BareCandidate(c) /\ c[Len(c)] # PIPE)
               => ((current_block = <<c>>) <=> HasUnescapedInnerPipe(c))
    /\ (pc = "done" /\ Len(lines) = 2) =>
         LET c == _strip_blockquote(lines[1])
         IN (BareCandidate(c) /\ c[Len(c)] = PIPE)
               => ((raw_tables = << <<c, SepLine>> >>) <=> HasUnescapedInnerPipe(c))

Contains(s, sub) == \E k \in 1..Len(s) : StartsWithAt(s, sub, k)

HasChar(s, c) == \E j \in 1..Len(s) : s[j] = c

\* the cells of a line read from left to right: a backslash and the pipe
\* after it are a literal pipe of the cell, any other pipe ends the cell
RECURSIVE ScanCells(_, _)
ScanCells(s, cur) ==
    IF s = <<>> THEN <<cur>>
    ELSE IF Len(s) >= 2 /\ s[1] = BACKSLASH /\ s[2] = PIPE
      THEN ScanCells(Slice(s, 3, Len(s)), Append(cur, PIPE))
    ELSE IF s[1] = PIPE
      THEN <<cur>> \o ScanCells(Tail(s), <<>>)
      ELSE ScanCells(Tail(s), Append(cur, s[1]))

RECURSIVE JoinWith(_, _)
JoinWith(segs, sep) ==
    IF segs = <<>> THEN <<>>
    ELSE IF Len(segs) = 1 THEN segs[1]
    ELSE segs[1] \o <<sep>> \o JoinWith(Tail(segs), sep)

\* the cells of a box-drawing line: the line cut at its vertical bars and
\* nowhere else, every other character left where it is
CutAtBars(line, cells) ==
    /\ JoinWith(cells, BoxV) = line
    /\ \A c \in 1..Len(cells) : ~ HasChar(cells[c], BoxV)

\* the lines of a block that parse_table hands to _split_row
SplitLines(block) ==
    LET data(l) == ~ _is_separator_row(l) IN SelectSeq(block, data)

NoPlaceholderIn(row) == \A c \in 1..Len(row) : ~ Contains(row[c], placeholder)

EscapeExampleParsed ==
    (Parsed /\ text = JoinLines(<<EscapeExample, SepLine>>)) =>
        rows = << << <<"A", SPACE, PIPE, SPACE, "B">>, <<"3", "0">> >> >>

\* C5 as stated: in a line without vertical bar, an escaped pipe is no column
\* boundary and is a literal pipe of its cell, every other pipe is a
\* boundary; in a line with a vertical bar only the bar is a boundary and
\* pipes and backslash-pipe stay as they are; no cell of any Row holds the
\* placeholder.  (The cells are compared character by character for the
\* lines without NUL, where no text of the line can form the placeholder.)
C5_EscapedPipes_AsStated ==
    /\ EscapeExampleParsed
    /\ Parsed =>
         LET data == SplitLines(raw_tables[t - 1])
         IN /\ Len(rows) = Len(data)
            /\ \A k \in 1..Len(data) :
                 /\ IF HasChar(data[k], BoxV)
                      THEN CutAtBars(data[k], split_cells(data[k]))
                      ELSE /\ ~ HasChar(data[k], NUL) =>
                                split_cells(data[k]) = ScanCells(data[k], <<>>)
                           /\ Len(split_cells(data[k])) =
                                Len(ScanCells(data[k], <<>>))
                 /\ NoPlaceholderIn(rows[k])

\* C5 as amended: as stated, but for the placeholder: no cell of a Row from a
\* line without vertical bar holds it, and a line with a vertical bar keeps
\* everything between its bars, a placeholder included.
C5_EscapedPipes ==
    /\ EscapeExampleParsed
    /\ Parsed =>
         LET data == SplitLines(raw_tables[t - 1])
         IN /\ Len(rows) = Len(data)
            /\ \A k \in 1..Len(data) :
                 IF HasChar(data[k], BoxV)
                   THEN CutAtBars(data[k], split_cells(data[k]))
                   ELSE /\ ~ HasChar(data[k], NUL) =>
                             split_cells(data[k]) = ScanCells(data[k], <<>>)
                        /\ Len(split_cells(data[k])) =
                             Len(ScanCells(data[k], <<>>))
                        /\ NoPlaceholderIn(rows[k])

C5_Witness ==
    /\ pc = "done"
    /\ text = JoinLines(<<EscapeExample, SepLine>>)
    /\ rows = << << <<"A", SPACE, PIPE, SPACE, "B">>, <<"3", "0">> >> >>

\* the segments with the first dropped when blank and the last dropped when
\* blank, each trimmed
OuterTrimmed(segs) ==
    LET lo == IF strip(segs[1]) = <<>> THEN 2 ELSE 1
        hi == IF strip(segs[Len(segs)]) = <<>> THEN Len(segs) - 1 ELSE Len(segs)
    IN [c \in 1..(hi - lo + 1) |-> strip(segs[lo + c - 1])]

Alice == <<"A", "l", "i", "c", "e">>
NYC == <<"N", "Y", "C">>
Bob == <<"B", "o", "b">>

\* C6: the Row of a line is its segments s_0..s_k, trimmed, without s_0
\* exactly when s_0 is blank and without s_k exactly when s_k is blank; a
\* blank interior segment is an empty cell at its place.
\* | Alice | | NYC | gives Alice, empty, NYC and | Bob   | 25  |          |
\* gives Bob, 25, empty.
C6_OuterCellsOnly ==
    /\ Parsed =>
         LET data == SplitLines(raw_tables[t - 1])
         IN /\ Len(rows) = Len(data)
            /\ \A k \in 1..Len(data) :
                 rows[k] = OuterTrimmed(split_cells(data[k]))
    /\ (Parsed /\ text = JoinLines(<<InteriorExample, SepLine>>)) =>
         rows = << <<Alice, <<>>, NYC>> >>
    /\ (Parsed /\ text = JoinLines(<<TrailingExample, SepLine>>)) =>
         rows = << <<Bob, <<"2", "5">>, <<>>>> >>

C6_Witness ==
    /\ pc = "done"
    /\ text = JoinLines(<<InteriorExample, SepLine>>)
    /\ rows = << <<Alice, <<>>, NYC>> >>

Trimmed(cell) ==
    cell = <<>> \/ (cell[1] \notin Whitespace /\ cell[Len(cell)] \notin Whitespace)

GoodRow(row) ==
    /\ Len(row) >= 1
    /\ \E c \in 1..Len(row) : row[c] # <<>>
    /\ \A c \in 1..Len(row) : Trimmed(row[c])

\* C10: every Row parse_table emits has at least one cell, at least one cell
\* that is not empty, and no cell with whitespace at either end; the first
\* Row of what convert_file writes has a length of at least 1.
C10_RowsNotEmpty ==
    /\ \A k \in 1..Len(rows) : GoodRow(rows[k])
    /\ \A n \in DOMAIN files :
         /\ files[n] # <<>>
         /\ Len(files[n][1]) >= 1
         /\ \A k \in 1..Len(files[n]) : GoodRow(files[n][k])

\* a Row with an empty cell, from a line with padded cells
C10_Witness ==
    /\ pc = "done"
    /\ text = JoinLines(<<TrailingExample, SepLine>>)
    /\ files = << << <<Bob, <<"2", "5">>, <<>>>> >> >>

-----------------------------------------------------------------------------
(* Properties of two conversions: SpecQuote, SpecReparse *)

NoMarkerLeft(blocks) ==
    \A b \in 1..Len(blocks) : \A j \in 1..Len(blocks[b]) :
        LET l == blocks[b][j]
        IN l = <<>> \/ (l[1] # GT /\ l[1] \notin Whitespace)

\* C7: with any number of quote markers before each line, each followed by
\* whitespace or not, find_tables and parse_table give the blocks and the
\* Rows of the document without them; no line of a block begins with a
\* marker or with whitespace.
C7_QuoteMarkersIgnored ==
    /\ (phase = "requoted" /\ Found) => raw_tables = base_tables
    /\ (phase = "requoted" /\ pc = "done") => files = base_files
    /\ NoMarkerLeft(<<current_block>>)
    /\ NoMarkerLeft(tables)
    /\ NoMarkerLeft(raw_tables)

\* a table whose lines got markers, a nested one among them
C7_Witness ==
    /\ phase = "requoted"
    /\ pc = "done"
    /\ files # <<>>
    /\ files = base_files
    /\ Contains(text, <<GT, SPACE, GT, SPACE, PIPE>>)
    /\ Contains(text, <<GT, PIPE>>)

=============================================================================
